---- MODULE Spec2Model ----
(***************************************************************************)
(* Baccarat round engine of terminal_casino (src/src/baccarat.rs): cards,  *)
(* card sources, the round lifecycle of BaccaratGame::play_round, the      *)
(* per-variant main-bet payout calculators, the bonus bets and the bet     *)
(* placement of BettingRound.                                              *)
(*                                                                         *)
(* A card source is the Vec<Card> the code keeps: a sequence whose LAST    *)
(* element is the next card dealt (Vec::pop).  rand's shuffle is a         *)
(* Fisher-Yates pass whose random draws are the model's choice: any        *)
(* permutation is a shuffle, and the specifications draw from the first    *)
(* NumShuffles of them or from the orders a shuffled source can be left in *)
(* after some cards have been dealt.                                       *)
(***************************************************************************)
EXTENDS Integers, Sequences, FiniteSets, TLC

\* ------------------------------------------------------------------ bounds
\* Ranks used by the enumerated sources: 1..NumRanks (the deck has 1..13;
\* ranks above 9 all count 0, so 10 ranks give every baccarat value 0..9).
NumRanks == 10
\* Ranks of the four initial cards in the enumerated sources: 1..6 already
\* give every pair of two-card scores 0..9 x 0..9.
InitialRanks == 6
\* Decks of the shoe stacked with one rank (4 cards of a rank per deck).
StackDecks == 14
\* Every stake 0..MaxStake is tried on the payouts.
MaxStake == 200
\* Decks of the shoe whose last cards Init enumerates (any rank may repeat).
ShoeDecks == 8

\* Cards left in the sources of the payout specifications: one full round.
PayoutCards == 6

\* ------------------------------------------------------- program constants
HEARTS == 0
DIAMONDS == 1
NumSuits == 4
\* CardSource::needs_reshuffle for a single deck: fewer than 6 cards left.
DeckFloor == 6
U8 == 256
\* The ranks a stacked shoe is made of.
StackRanks == {8, 9}

\* Option<T>: None is the empty sequence, Some(x) the one-element sequence.
None == << >>
Some(x) == <<x>>

\* ------------------------------------------------------------------- cards
Card(s, r) == [suit |-> s, rank |-> r]

\* Card::baccarat_value
baccarat_value(card) == IF card.rank \in 1..9 THEN card.rank ELSE 0

\* The sum of the cards' values, taken by halves so that a whole shoe can
\* be summed.
RECURSIVE SumValues(_)
SumValues(cards) ==
    IF cards = << >> THEN 0
    ELSE IF Len(cards) = 1 THEN baccarat_value(cards[1])
    ELSE LET half == Len(cards) \div 2
         IN SumValues(SubSeq(cards, 1, half))
              + SumValues(SubSeq(cards, half + 1, Len(cards)))

\* GameState::calculate_hand_score: the u8 sum (wrapping as a release build
\* does), then % 10.
calculate_hand_score(cards) == (SumValues(cards) % U8) % 10

\* ------------------------------------------------------------ card sources
\* Deck::deal: Vec::pop.
DeckDeal(src) ==
    IF Len(src.cards) = 0
    THEN [card |-> None, source |-> src]
    ELSE [card |-> Some(src.cards[Len(src.cards)]),
          source |-> [src EXCEPT !.cards = SubSeq(src.cards, 1, Len(src.cards) - 1)]]

\* A Shoe::deal that counts the call before looking at the cards.
ShoeDeal_counts_first(src) ==
    IF Len(src.cards) = 0
    THEN [card |-> None,
          source |-> [src EXCEPT !.cards_dealt = src.cards_dealt + 1]]
    ELSE [card |-> Some(src.cards[Len(src.cards)]),
          source |-> [src EXCEPT !.cards_dealt = src.cards_dealt + 1,
                                 !.cards = SubSeq(src.cards, 1, Len(src.cards) - 1)]]

\* Shoe::deal
ShoeDeal(src) ==
    IF Len(src.cards) = 0
    THEN [card |-> None, source |-> src]
    ELSE [card |-> Some(src.cards[Len(src.cards)]),
          source |-> [src EXCEPT !.cards_dealt = src.cards_dealt + 1,
                                 !.cards = SubSeq(src.cards, 1, Len(src.cards) - 1)]]

\* CardSource::deal
CardSourceDeal(src) ==
    IF src.kind = "SingleDeck" THEN DeckDeal(src) ELSE ShoeDeal(src)

\* A Shoe::needs_reshuffle that waits for one card more to go.
ShoeNeedsReshuffle_strict(src) ==
    Len(src.cards) < (52 * src.num_decks) - src.cut_card_position

\* Shoe::needs_reshuffle
ShoeNeedsReshuffle(src) ==
    Len(src.cards) <= (52 * src.num_decks) - src.cut_card_position

\* CardSource::needs_reshuffle
needs_reshuffle(src) ==
    IF src.kind = "SingleDeck" THEN Len(src.cards) < DeckFloor
    ELSE ShoeNeedsReshuffle(src)

\* ---------------------------------------------------------- BaccaratGame
\* The fields of the BaccaratGame (bonus_bets among them), the BettingRound
\* a client keeps beside it, and what the last call of a payout or betting
\* method returned (None before any such call).
VARIABLES card_source, player_hand, banker_hand, state, mode, panicked,
          bonus_bets, betting_round, returned

vars == <<card_source, player_hand, banker_hand, state, mode, panicked,
          bonus_bets, betting_round, returned>>

\* The part of the state that is not the BaccaratGame's round.
betting_vars == <<bonus_bets, betting_round, returned>>

\* The fields of a BaccaratGame the round lifecycle reads and writes, as one
\* record; panicked marks that an unwrap() on an exhausted source, or a
\* checked u8 addition, has aborted the call.
Game == [card_source |-> card_source, player_hand |-> player_hand,
         banker_hand |-> banker_hand, state |-> state, panicked |-> panicked]

\* GameState::new
GameStateNew == [player_score |-> 0, banker_score |-> 0,
                 round_complete |-> 0, winner |-> 0]

\* self.<hand>.push(self.card_source.deal().unwrap())
DealTo(g, hand) ==
    IF g.panicked THEN g
    ELSE LET d == CardSourceDeal(g.card_source) IN
         IF d.card = None
         THEN [g EXCEPT !.panicked = TRUE]
         ELSE [g EXCEPT !.card_source = d.source,
                        ![hand] = Append(g[hand], d.card[1])]

\* BaccaratGame::update_scores.  oc: the build checks arithmetic overflow
\* (debug); otherwise the u8 sum wraps (release).
update_scores(g, oc) ==
    IF g.panicked THEN g
    ELSE IF oc /\ SumValues(g.player_hand) >= U8
    THEN [g EXCEPT !.panicked = TRUE]
    ELSE IF oc /\ SumValues(g.banker_hand) >= U8
    THEN [g EXCEPT !.state.player_score = calculate_hand_score(g.player_hand),
                   !.panicked = TRUE]
    ELSE [g EXCEPT !.state.player_score = calculate_hand_score(g.player_hand),
                   !.state.banker_score = calculate_hand_score(g.banker_hand)]

\* Mutant: the banker is dealt first.
deal_initial_cards_banker_first(g, oc) ==
    update_scores(
        DealTo(DealTo(DealTo(DealTo(g, "banker_hand"), "player_hand"),
                      "banker_hand"), "player_hand"),
        oc)

\* Mutant: the banker's second card is forgotten.
deal_initial_cards_three(g, oc) ==
    update_scores(
        DealTo(DealTo(DealTo(g, "player_hand"), "banker_hand"), "player_hand"),
        oc)

\* BaccaratGame::deal_initial_cards
deal_initial_cards(g, oc) ==
    update_scores(
        DealTo(DealTo(DealTo(DealTo(g, "player_hand"), "banker_hand"),
                      "player_hand"), "banker_hand"),
        oc)

\* Mutant: equal scores go to the banker.
determine_winner_tie_to_banker(g) ==
    IF g.panicked THEN g
    ELSE [g EXCEPT !.state.round_complete = 1,
                   !.state.winner =
                       IF g.state.player_score > g.state.banker_score THEN 1
                       ELSE 2]

\* BaccaratGame::determine_winner
determine_winner(g) ==
    IF g.panicked THEN g
    ELSE [g EXCEPT !.state.round_complete = 1,
                   !.state.winner =
                       IF g.state.player_score > g.state.banker_score THEN 1
                       ELSE IF g.state.banker_score > g.state.player_score THEN 2
                       ELSE 3]

\* Mutant: on 3 the banker stands when the player stood.
should_draw_three_needs_card(banker_score, player_third_value) ==
    CASE banker_score \in 0..2 -> TRUE
      [] banker_score = 3 -> player_third_value \in {Some(v) : v \in 0..9} \ {Some(8)}
      [] banker_score = 4 -> player_third_value \in {Some(v) : v \in 2..7}
      [] banker_score = 5 -> player_third_value \in {Some(v) : v \in 4..7}
      [] banker_score = 6 -> player_third_value \in {Some(6), Some(7)}
      [] OTHER -> FALSE

\* The match of banker_draw_logic: should_draw from the banker's score and
\* the player's third-card value (None when the player stood).
should_draw(banker_score, player_third_value) ==
    CASE banker_score \in 0..2 -> TRUE
      [] banker_score = 3 -> player_third_value # Some(8)
      [] banker_score = 4 -> player_third_value \in {Some(v) : v \in 2..7}
      [] banker_score = 5 -> player_third_value \in {Some(v) : v \in 4..7}
      [] banker_score = 6 -> player_third_value \in {Some(6), Some(7)}
      [] OTHER -> FALSE

\* BaccaratGame::banker_draw_logic
banker_draw_logic(g, player_third_value, oc) ==
    IF g.panicked THEN g
    ELSE IF should_draw(g.state.banker_score, player_third_value)
    THEN update_scores(DealTo(g, "banker_hand"), oc)
    ELSE g

\* Mutant: the player draws on 4 or less.
PlayerThird_below_five(g, oc) ==
    IF g.state.player_score < 5
    THEN LET d == DealTo(g, "player_hand") IN
         [game |-> update_scores(d, oc),
          value |-> IF d.panicked THEN None
                    ELSE Some(baccarat_value(d.player_hand[Len(d.player_hand)]))]
    ELSE [game |-> g, value |-> None]

\* The player's part of play_round: draw on 5 or less, and the value handed
\* to the banker rule.
PlayerThird(g, oc) ==
    IF g.state.player_score <= 5
    THEN LET d == DealTo(g, "player_hand") IN
         [game |-> update_scores(d, oc),
          value |-> IF d.panicked THEN None
                    ELSE Some(baccarat_value(d.player_hand[Len(d.player_hand)]))]
    ELSE [game |-> g, value |-> None]

\* Mutant: only a 9 counts as a natural.
play_round_natural_nine(g, oc) ==
    LET g1 == deal_initial_cards(g, oc) IN
    IF g1.panicked THEN g1
    ELSE IF g1.state.player_score > 8 \/ g1.state.banker_score > 8
    THEN determine_winner(g1)
    ELSE LET p == PlayerThird(g1, oc) IN
         determine_winner(banker_draw_logic(p.game, p.value, oc))

\* BaccaratGame::play_round
play_round(g, oc) ==
    LET g1 == deal_initial_cards(g, oc) IN
    IF g1.panicked THEN g1
    ELSE IF g1.state.player_score >= 8 \/ g1.state.banker_score >= 8
    THEN determine_winner(g1)
    ELSE LET p == PlayerThird(g1, oc) IN
         determine_winner(banker_draw_logic(p.game, p.value, oc))

\* ------------------------------------------------------------- f32 values
\* A finite f32 is sign, m * 2^e with a 24-bit significand m < 2^24.  Only
\* the operations the payouts use are modelled: i32 -> f32, f32 * f32 and
\* f32 -> i32, each rounding as IEEE 754 binary32 / Rust's `as` does.
TwoTo12 == 2^12
TwoTo23 == 2^23
TwoTo24 == 2^24
I32Max == 2147483647

Abs(n) == IF n < 0 THEN -n ELSE n

\* Bits needed to write x (0 for 0), for 0 <= x < 2^30.
BitLen(x) == CHOOSE k \in 0..30 : x < 2^k /\ (k = 0 \/ x >= 2^(k - 1))

\* Round to nearest, ties to even: q the quotient by unit, rem the remainder.
RoundHalfEven(q, rem, unit) ==
    IF 2 * rem > unit \/ (2 * rem = unit /\ q % 2 = 1) THEN q + 1 ELSE q

\* A significand rounded up to 2^24 is 2^23 one exponent higher.
F32Normalize(f) ==
    IF f.m = TwoTo24 THEN [f EXCEPT !.m = TwoTo23, !.e = f.e + 1] ELSE f

\* `n as f32` for an i32 n with |n| < 2^30: exact below 2^24, else rounded
\* to 24 significant bits.
I32ToF32(n) ==
    LET a == Abs(n)
        k == IF a < TwoTo24 THEN 0 ELSE BitLen(a) - 24
    IN F32Normalize([neg |-> n < 0,
                     m |-> RoundHalfEven(a \div 2^k, a % 2^k, 2^k),
                     e |-> k])

\* a * b in f32: the exact product of the significands (kept in 12-bit
\* limbs, it has up to 48 bits), rounded to 24 significant bits.
F32Mul(a, b) ==
    LET a1 == a.m \div TwoTo12
        a0 == a.m % TwoTo12
        b1 == b.m \div TwoTo12
        b0 == b.m % TwoTo12
        t0 == a0 * b0
        u1 == a1 * b0 + a0 * b1 + (t0 \div TwoTo12)
        hi == a1 * b1 + (u1 \div TwoTo12)
        lo == (u1 % TwoTo12) * TwoTo12 + (t0 % TwoTo12)
        \* the product is hi * 2^24 + lo; k bits are rounded away
        k == BitLen(hi)
        q == hi * 2^(24 - k) + (lo \div 2^k)
    IN F32Normalize([neg |-> a.neg # b.neg,
                     m |-> RoundHalfEven(q, lo % 2^k, 2^k),
                     e |-> a.e + b.e + k])

\* `f as i32`: truncation toward zero, saturating at the i32 range.
F32ToI32(f) ==
    LET mag == IF f.m = 0 THEN 0
               ELSE IF f.e >= 0
               THEN (IF BitLen(f.m) + f.e > 31 THEN I32Max + 1 ELSE f.m * 2^f.e)
               ELSE (IF -f.e > 30 THEN 0 ELSE f.m \div 2^(-f.e))
    IN IF f.neg THEN -mag
       ELSE IF mag > I32Max THEN I32Max ELSE mag

\* The literals 1.95 and 1.5 as f32: 1.95 is 16357786 * 2^-23 (the nearest
\* f32, a little above 1.95), 1.5 is exact.
F32_1_95 == [neg |-> FALSE, m |-> 16357786, e |-> -23]
F32_1_5 == [neg |-> FALSE, m |-> 12582912, e |-> -23]

\* ------------------------------------------------------- main-bet payouts
\* bet_amount * k in i32.  The stakes of the model stay below 2^24 and k is
\* at most 40, so the product never leaves the i32 range.
I32Mul(a, k) == a * k

\* BaccaratGame::classic_payout
classic_payout(bet_type, bet_amount) ==
    CASE bet_type = "player" /\ state.winner = 1 -> I32Mul(bet_amount, 2)
      [] bet_type = "banker" /\ state.winner = 2 ->
            F32ToI32(F32Mul(I32ToF32(bet_amount), F32_1_95))
      [] bet_type = "tie" /\ state.winner = 3 -> I32Mul(bet_amount, 9)
      [] OTHER -> 0

\* BaccaratGame::no_commission_payout
no_commission_payout(bet_type, bet_amount) ==
    CASE bet_type = "player" /\ state.winner = 1 -> I32Mul(bet_amount, 2)
      [] bet_type = "banker" /\ state.winner = 2 ->
            IF state.banker_score = 6
            THEN F32ToI32(F32Mul(I32ToF32(bet_amount), F32_1_5))
            ELSE I32Mul(bet_amount, 2)
      [] bet_type = "tie" /\ state.winner = 3 -> I32Mul(bet_amount, 9)
      [] OTHER -> 0

\* Mutant: a tie pays 9 x here as in the other variants.
speed_payout_tie_nine(bet_type, bet_amount) ==
    CASE bet_type = "player" /\ state.winner = 1 -> I32Mul(bet_amount, 2)
      [] bet_type = "banker" /\ state.winner = 2 -> I32Mul(bet_amount, 2)
      [] bet_type = "tie" /\ state.winner = 3 -> I32Mul(bet_amount, 9)
      [] OTHER -> 0

\* BaccaratGame::speed_payout
speed_payout(bet_type, bet_amount) ==
    CASE bet_type = "player" /\ state.winner = 1 -> I32Mul(bet_amount, 2)
      [] bet_type = "banker" /\ state.winner = 2 -> I32Mul(bet_amount, 2)
      [] bet_type = "tie" /\ state.winner = 3 -> I32Mul(bet_amount, 8)
      [] OTHER -> 0

\* Mutant: any winning banker 7 is a Dragon 7, whatever the card count.
is_dragon_7_any_cards == state.winner = 2 /\ state.banker_score = 7

\* BaccaratGame::is_dragon_7
is_dragon_7 ==
    state.winner = 2 /\ state.banker_score = 7 /\ Len(banker_hand) = 3

\* BaccaratGame::is_panda_8
is_panda_8 ==
    state.winner = 1 /\ state.player_score = 8 /\ Len(player_hand) = 3

\* Mutant: one banker card that counts 0 is enough.
AllBankerCardsZero_some ==
    \E i \in 1..Len(banker_hand) :
        baccarat_value(banker_hand[i]) = 0 \/ baccarat_value(banker_hand[i]) >= 10

\* The closure of the banker arm of ez_baccarat_payout, over every card of
\* the banker's hand.
AllBankerCardsZero ==
    \A i \in 1..Len(banker_hand) :
        baccarat_value(banker_hand[i]) = 0 \/ baccarat_value(banker_hand[i]) >= 10

\* Mutant: the banker arm has no 1 x case.
ez_baccarat_payout_no_push(bet_type, bet_amount) ==
    CASE bet_type = "player" /\ state.winner = 1 -> I32Mul(bet_amount, 2)
      [] bet_type = "banker" /\ state.winner = 2 -> I32Mul(bet_amount, 2)
      [] bet_type = "tie" /\ state.winner = 3 -> I32Mul(bet_amount, 9)
      [] bet_type = "dragon7" /\ state.winner = 2 /\ is_dragon_7 -> I32Mul(bet_amount, 40)
      [] bet_type = "panda8" /\ state.winner = 1 /\ is_panda_8 -> I32Mul(bet_amount, 25)
      [] OTHER -> 0

\* BaccaratGame::ez_baccarat_payout
ez_baccarat_payout(bet_type, bet_amount) ==
    CASE bet_type = "player" /\ state.winner = 1 -> I32Mul(bet_amount, 2)
      [] bet_type = "banker" /\ state.winner = 2 ->
            IF /\ Len(banker_hand) = 3
               /\ state.banker_score = 7
               /\ AllBankerCardsZero
            THEN bet_amount
            ELSE I32Mul(bet_amount, 2)
      [] bet_type = "tie" /\ state.winner = 3 -> I32Mul(bet_amount, 9)
      [] bet_type = "dragon7" /\ state.winner = 2 /\ is_dragon_7 -> I32Mul(bet_amount, 40)
      [] bet_type = "panda8" /\ state.winner = 1 /\ is_panda_8 -> I32Mul(bet_amount, 25)
      [] OTHER -> 0

\* enum GameMode
GameModes == {"Classic", "NoCommission", "Speed", "EzBaccarat"}

\* BaccaratGame::calculate_main_bet_payout
calculate_main_bet_payout(bet_type, bet_amount) ==
    CASE mode = "Classic" -> classic_payout(bet_type, bet_amount)
      [] mode = "NoCommission" -> no_commission_payout(bet_type, bet_amount)
      [] mode = "Speed" -> speed_payout(bet_type, bet_amount)
      [] mode = "EzBaccarat" -> ez_baccarat_payout(bet_type, bet_amount)

\* ------------------------------------------------------------- bonus bets
\* The seven fields of BonusBets.
BonusKinds == {"player_pair", "banker_pair", "either_pair", "perfect_pair",
               "player_dragon", "banker_dragon", "lucky_6"}

\* BonusBets::new
BonusBetsNew == [k \in BonusKinds |-> 0]

\* BaccaratGame::is_player_pair
is_player_pair ==
    Len(player_hand) >= 2 /\ player_hand[1].rank = player_hand[2].rank

\* BaccaratGame::is_banker_pair
is_banker_pair ==
    Len(banker_hand) >= 2 /\ banker_hand[1].rank = banker_hand[2].rank

\* Mutant: only the player's pair counts.
is_either_pair_player_only == is_player_pair

\* BaccaratGame::is_either_pair
is_either_pair == is_player_pair \/ is_banker_pair

\* Mutant: a pair of one rank is a perfect pair whatever the suits.
is_perfect_pair_any_suit ==
    \/ Len(player_hand) >= 2 /\ player_hand[1].rank = player_hand[2].rank
    \/ Len(banker_hand) >= 2 /\ banker_hand[1].rank = banker_hand[2].rank

\* BaccaratGame::is_perfect_pair
is_perfect_pair ==
    LET player_perfect == /\ Len(player_hand) >= 2
                          /\ player_hand[1].rank = player_hand[2].rank
                          /\ player_hand[1].suit = player_hand[2].suit
        banker_perfect == /\ Len(banker_hand) >= 2
                          /\ banker_hand[1].rank = banker_hand[2].rank
                          /\ banker_hand[1].suit = banker_hand[2].suit
    IN player_perfect \/ banker_perfect

\* A victory_margin that subtracts the banker's score from the player's.
victory_margin_player_minus_banker ==
    IF state.winner = 0 \/ state.winner = 3 THEN 0
    ELSE state.player_score - state.banker_score

\* BaccaratGame::victory_margin
victory_margin ==
    IF state.winner = 0 \/ state.winner = 3 THEN 0
    ELSE LET higher == IF state.player_score >= state.banker_score
                       THEN state.player_score ELSE state.banker_score
             lower == IF state.player_score <= state.banker_score
                      THEN state.player_score ELSE state.banker_score
         IN higher - lower

\* Mutant: a margin of 3 pays 1 to 1 as well.
dragon_ratio_from_three(margin) ==
    CASE margin = 9 -> 30
      [] margin = 8 -> 10
      [] margin = 7 -> 6
      [] margin = 6 -> 4
      [] margin = 5 -> 2
      [] margin = 4 -> 1
      [] margin = 3 -> 1
      [] OTHER -> 0

\* The match on the margin in the two dragon arms of calculate_payouts.
dragon_ratio(margin) ==
    CASE margin = 9 -> 30
      [] margin = 8 -> 10
      [] margin = 7 -> 6
      [] margin = 6 -> 4
      [] margin = 5 -> 2
      [] margin = 4 -> 1
      [] OTHER -> 0

\* Mutant: the card count of the winning 6 is ignored.
lucky_6_ratio_flat(hand_len) == 12

\* The ratio of the lucky_6 arm of calculate_payouts.
lucky_6_ratio(hand_len) == IF hand_len = 3 THEN 20 ELSE 12

\* BonusBets::calculate_payouts: the seven arms, each adding to the total.
calculate_payouts(bets) ==
    LET t1 == IF bets.player_pair > 0 /\ is_player_pair
              THEN I32Mul(bets.player_pair, 11) ELSE 0
        t2 == t1 + (IF bets.banker_pair > 0 /\ is_banker_pair
                    THEN I32Mul(bets.banker_pair, 11) ELSE 0)
        t3 == t2 + (IF bets.either_pair > 0 /\ is_either_pair
                    THEN I32Mul(bets.either_pair, 5) ELSE 0)
        t4 == t3 + (IF bets.perfect_pair > 0 /\ is_perfect_pair
                    THEN I32Mul(bets.perfect_pair, 25) ELSE 0)
        t5 == t4 + (IF bets.player_dragon > 0 /\ state.winner = 1
                       /\ dragon_ratio(victory_margin) > 0
                    THEN I32Mul(bets.player_dragon, dragon_ratio(victory_margin))
                    ELSE 0)
        t6 == t5 + (IF bets.banker_dragon > 0 /\ state.winner = 2
                       /\ dragon_ratio(victory_margin) > 0
                    THEN I32Mul(bets.banker_dragon, dragon_ratio(victory_margin))
                    ELSE 0)
        t7 == t6 + (IF bets.lucky_6 > 0 /\ state.winner = 2
                       /\ state.banker_score = 6
                    THEN I32Mul(bets.lucky_6, lucky_6_ratio(Len(banker_hand))) ELSE 0)
    IN t7

\* Mutant: the bonus payout is left out.
total_payout_main_only(main_bet_type, main_bet_amount) ==
    calculate_main_bet_payout(main_bet_type, main_bet_amount)

\* BaccaratGame::total_payout
total_payout(main_bet_type, main_bet_amount) ==
    LET main_payout == calculate_main_bet_payout(main_bet_type, main_bet_amount)
        bonus_payout == calculate_payouts(bonus_bets)
    IN main_payout + bonus_payout

\* The u8 sum of BonusBets::total_bet before the cast to i32.
BonusSum(bets) ==
    bets.player_pair + bets.banker_pair + bets.either_pair + bets.perfect_pair
    + bets.player_dragon + bets.banker_dragon + bets.lucky_6

\* BonusBets::total_bet, the u8 sum wrapping as a release build does.
total_bet(bets) == BonusSum(bets) % U8

\* ---------------------------------------------------------- BettingRound
\* RoundStatistics::new (bonus_hits: the empty map)
RoundStatisticsNew == [hands_played |-> 0, amount_wagered |-> 0,
                       amount_won |-> 0, bonus_hits |-> << >>]

\* BettingRound::new
BettingRoundNew(balance) ==
    [main_bet_type |-> "", main_bet_amount |-> 0, bonus_bets |-> BonusBetsNew,
     balance |-> balance, round_stats |-> RoundStatisticsNew]

\* Result<(), &str>
Ok == "Ok"
Err(message) == message

\* The selections place_main_bet accepts.
MainBetTypes == {"player", "banker", "tie"}

\* Mutant: the selection is stored before it is validated.
place_main_bet_stores_first(br, bet_type, amount) ==
    IF amount > br.balance
    THEN [round |-> br, result |-> Err("Insufficient balance")]
    ELSE IF amount <= 0
    THEN [round |-> br, result |-> Err("Bet amount must be positive")]
    ELSE IF bet_type \notin MainBetTypes
    THEN [round |-> [br EXCEPT !.main_bet_type = bet_type],
          result |-> Err("Invalid bet type")]
    ELSE [round |-> [br EXCEPT !.main_bet_type = bet_type,
                               !.main_bet_amount = amount],
          result |-> Ok]

\* Mutant: an amount above the balance is reported like a non-positive one.
place_main_bet_one_amount_error(br, bet_type, amount) ==
    IF amount > br.balance
    THEN [round |-> br, result |-> Err("Bet amount must be positive")]
    ELSE IF amount <= 0
    THEN [round |-> br, result |-> Err("Bet amount must be positive")]
    ELSE IF bet_type \notin MainBetTypes
    THEN [round |-> br, result |-> Err("Invalid bet type")]
    ELSE [round |-> [br EXCEPT !.main_bet_type = bet_type,
                               !.main_bet_amount = amount],
          result |-> Ok]

\* BettingRound::place_main_bet: the round after the call and what the call
\* returns.
place_main_bet(br, bet_type, amount) ==
    IF amount > br.balance
    THEN [round |-> br, result |-> Err("Insufficient balance")]
    ELSE IF amount <= 0
    THEN [round |-> br, result |-> Err("Bet amount must be positive")]
    ELSE IF bet_type \notin MainBetTypes
    THEN [round |-> br, result |-> Err("Invalid bet type")]
    ELSE [round |-> [br EXCEPT !.main_bet_type = bet_type,
                               !.main_bet_amount = amount],
          result |-> Ok]

\* BettingRound::place_bonus_bet: the round after the call, what the call
\* returns, and whether the u8 sum of total_bet aborted it.  oc: the build
\* checks arithmetic overflow.
place_bonus_bet(br, bet_type, amount, oc) ==
    IF oc /\ BonusSum(br.bonus_bets) >= U8
    THEN [round |-> br, result |-> None, panicked |-> TRUE]
    ELSE LET sum == br.main_bet_amount + total_bet(br.bonus_bets) + amount IN
         IF sum > br.balance
         THEN [round |-> br, result |-> Err("Insufficient balance for bonus bet"),
               panicked |-> FALSE]
         ELSE IF bet_type \in BonusKinds
         THEN [round |-> [br EXCEPT !.bonus_bets[bet_type] = amount],
               result |-> Ok, panicked |-> FALSE]
         ELSE [round |-> br, result |-> Err("Invalid bonus bet type"),
               panicked |-> FALSE]

\* The hits recorded for a bonus kind: 0 while the map has no entry for it.
HitsOf(stats, kind) ==
    IF kind \in DOMAIN stats.bonus_hits THEN stats.bonus_hits[kind] ELSE 0

\* RoundStatistics::record_bonus_hit: *entry(bonus_type).or_insert(0) += 1
record_bonus_hit(stats, bonus_type) ==
    [stats EXCEPT !.bonus_hits =
        IF bonus_type \in DOMAIN stats.bonus_hits
        THEN [stats.bonus_hits EXCEPT ![bonus_type] = @ + 1]
        ELSE [k \in DOMAIN stats.bonus_hits \cup {bonus_type} |->
                 IF k = bonus_type THEN 1 ELSE stats.bonus_hits[k]]]

\* BettingRound::settle_round on the game: the round after the call, the
\* payout it returns, and whether the u8 sum of total_bet aborted it.  oc:
\* the build checks arithmetic overflow.
settle_round(br, oc) ==
    IF oc /\ BonusSum(br.bonus_bets) >= U8
    THEN [round |-> br, result |-> None, panicked |-> TRUE]
    ELSE LET staked == br.main_bet_amount + total_bet(br.bonus_bets)
             payout == total_payout(br.main_bet_type, br.main_bet_amount)
             paid == [br EXCEPT !.balance = br.balance - staked + payout,
                                !.round_stats.hands_played = @ + 1,
                                !.round_stats.amount_wagered = @ + staked,
                                !.round_stats.amount_won = @ + payout]
             hit1 == IF is_player_pair /\ br.bonus_bets.player_pair > 0
                     THEN [paid EXCEPT !.round_stats =
                              record_bonus_hit(paid.round_stats, "player_pair")]
                     ELSE paid
             hit2 == IF is_banker_pair /\ br.bonus_bets.banker_pair > 0
                     THEN [hit1 EXCEPT !.round_stats =
                              record_bonus_hit(hit1.round_stats, "banker_pair")]
                     ELSE hit1
         IN [round |-> hit2, result |-> Some(payout), panicked |-> FALSE]

\* ------------------------------------------------------------ the sources
\* All sequences over S of length n.
SeqsOfLen(S, n) == [1..n -> S]

\* Shoe::new fixes the cut card at construction from the full size.
CutCardPosition(num_decks) ==
    LET total == 52 * num_decks
        tenth == total \div 10
    IN total - (IF tenth >= 15 THEN tenth ELSE 15)

\* A shoe of num_decks decks dealt down to `cards` (the public deal() was
\* called the rest of the way).
ShoeLeft(num_decks, cards) ==
    [kind |-> "Shoe", cards |-> cards, num_decks |-> num_decks,
     cut_card_position |-> CutCardPosition(num_decks),
     cards_dealt |-> 52 * num_decks - Len(cards)]

\* A single deck dealt down to `cards`.
DeckLeft(cards) == [kind |-> "SingleDeck", cards |-> cards]

Injective(f) == \A i, j \in DOMAIN f : i # j => f[i] # f[j]

\* The cards of one suit, up to a rank.
SuitCards(s, maxrank) == {Card(s, r) : r \in 1..maxrank}

\* n cards of one rank, the suits taking turns.
Stacked(rank, n) == [i \in 1..n |-> Card(i % NumSuits, rank)]

\* source is one of the sources a game starts with:
\*  - what is left of a ShoeDecks-deck shoe (any rank may repeat) or of a
\*    single deck (no card repeats): the last 0..4 cards (the initial deal)
\*    of ranks 1..InitialRanks and, under a full initial deal, 0..2 cards
\*    (the third cards) of any rank; the next card dealt is the last one;
\*  - a StackDecks-deck shoe dealt down to a run of one rank, long enough
\*    for many rounds on the same game.
IsSource(source) ==
    \/ \E k \in 0..4 : \E top \in SeqsOfLen(SuitCards(HEARTS, InitialRanks), k) :
       \E m \in (IF k = 4 THEN 0..(DeckFloor - 4) ELSE {0}) :
       \E bottom \in SeqsOfLen(SuitCards(HEARTS, NumRanks), m) :
          \/ source = ShoeLeft(ShoeDecks, bottom \o top)
          \/ /\ Injective(bottom \o top)
             /\ source = DeckLeft(bottom \o top)
    \/ \E r \in StackRanks : \E n \in 0..(NumSuits * StackDecks) :
          source = ShoeLeft(StackDecks, Stacked(r, n))

\* BaccaratGame::with_mode / with_shoe, then deal() down to what is left.
Init ==
    /\ IsSource(card_source)
    /\ player_hand = << >>
    /\ banker_hand = << >>
    /\ state = GameStateNew
    /\ mode = "Classic"
    /\ panicked = FALSE
    /\ bonus_bets = BonusBetsNew
    /\ betting_round = BettingRoundNew(0)
    /\ returned = None

\* The value of every card the game holds: a u8 sum can only overflow when
\* this reaches 256, and only then does the build's overflow check matter.
TotalValue == SumValues(card_source.cards) + SumValues(player_hand) + SumValues(banker_hand)

OverflowChecks == IF TotalValue >= U8 THEN BOOLEAN ELSE {FALSE}

\* One call of play_round on the game.  A panic ends the program.
PlayRound ==
    /\ ~panicked
    /\ \E oc \in OverflowChecks :
         LET g == play_round(Game, oc) IN
         /\ card_source' = g.card_source
         /\ player_hand' = g.player_hand
         /\ banker_hand' = g.banker_hand
         /\ state' = g.state
         /\ panicked' = g.panicked
    /\ UNCHANGED <<mode, betting_vars>>

\* One call of deal_initial_cards on the game, outside any play_round (the
\* method is public).  A panic ends the program.
DealInitialCards ==
    /\ ~panicked
    /\ \E oc \in OverflowChecks :
         LET g == deal_initial_cards(Game, oc) IN
         /\ card_source' = g.card_source
         /\ player_hand' = g.player_hand
         /\ banker_hand' = g.banker_hand
         /\ state' = g.state
         /\ panicked' = g.panicked
    /\ UNCHANGED <<mode, betting_vars>>

Next == PlayRound \/ DealInitialCards

Spec == Init /\ [][Next]_vars

\* ----------------------------------------- finished rounds of every variant
\* Three ranks whose orders give every winner, every margin 0..9 for either
\* side, a winning banker 6 and 7 on two and on three cards, a winning player
\* 8 on two and on three cards, pairs and no pairs.
PayoutRanks == {2, 3, 5}

\* What is left of a ShoeDecks-deck shoe: PayoutCards cards of PayoutRanks,
\* the second card of either hand of hearts or of diamonds (a pair is then a
\* perfect pair or not).
IsPayoutSource(source) ==
    \E ranks \in SeqsOfLen(PayoutRanks, PayoutCards) :
    \E s1, s2 \in {HEARTS, DIAMONDS} :
        source = ShoeLeft(ShoeDecks,
                          [i \in 1..PayoutCards |->
                              Card(IF i = PayoutCards - 2 THEN s1
                                   ELSE IF i = PayoutCards - 3 THEN s2
                                   ELSE HEARTS,
                                   ranks[i])])

\* BaccaratGame::with_mode for any variant, on such a source.
InitPayout ==
    /\ IsPayoutSource(card_source)
    /\ player_hand = << >>
    /\ banker_hand = << >>
    /\ state = GameStateNew
    /\ mode \in GameModes
    /\ panicked = FALSE
    /\ bonus_bets = BonusBetsNew
    /\ betting_round = BettingRoundNew(0)
    /\ returned = None

NextPayout == PlayRound

SpecPayout == InitPayout /\ [][NextPayout]_vars

\* ---------------------------------- payouts as functions of the game's fields
\* The fields of BaccaratGame are public: a client can hand the payout
\* methods a game whose hands, scores and winner it has written itself.
\* Ranks of the cards of such hands: one that counts and one that counts 0.
FieldRanks == {7, 10}

\* Hands of two or three cards over a set of cards.
FieldHands(cards) == SeqsOfLen(cards, 2) \cup SeqsOfLen(cards, 3)

\* A game of the EzBaccarat variant with any scores and winner written to
\* its state, any banker hand over FieldRanks and a player hand of 8s.
InitFields ==
    /\ card_source = ShoeLeft(ShoeDecks, << >>)
    /\ player_hand \in FieldHands({Card(HEARTS, 8)})
    /\ banker_hand \in FieldHands({Card(HEARTS, r) : r \in FieldRanks})
    /\ state \in [player_score : 0..9, banker_score : 0..9,
                   round_complete : {1}, winner : 0..3]
    /\ mode = "EzBaccarat"
    /\ panicked = FALSE
    /\ bonus_bets = BonusBetsNew
    /\ betting_round = BettingRoundNew(0)
    /\ returned = None

\* The stakes of the recorded calls.
CallStakes == {1, 100}

\* One call of calculate_main_bet_payout; what it returned is kept with its
\* arguments.
MainBetPayout ==
    /\ ~panicked
    /\ \E bet_type \in {"player", "banker", "tie", "dragon7", "panda8", "other"} :
       \E bet_amount \in CallStakes :
          returned' = Some([call |-> "calculate_main_bet_payout",
                            bet_type |-> bet_type, bet_amount |-> bet_amount,
                            value |-> calculate_main_bet_payout(bet_type, bet_amount)])
    /\ UNCHANGED <<card_source, player_hand, banker_hand, state, mode, panicked,
                   bonus_bets, betting_round>>

NextFields == MainBetPayout

SpecFields == InitFields /\ [][NextFields]_vars

\* ------------------------------------------- EzBaccarat rounds as dealt
\* Ranks of the cards of the EzBaccarat specification: two that count and a
\* king, which counts 0.
EzRanks == {3, 7, 13}

\* What is left of a ShoeDecks-deck shoe: PayoutCards hearts of EzRanks.
IsEzSource(source) ==
    \E ranks \in SeqsOfLen(EzRanks, PayoutCards) :
        source = ShoeLeft(ShoeDecks, [i \in 1..PayoutCards |-> Card(HEARTS, ranks[i])])

\* BaccaratGame::with_shoe(GameMode::EzBaccarat, ShoeDecks), dealt down.
InitEz ==
    /\ IsEzSource(card_source)
    /\ player_hand = << >>
    /\ banker_hand = << >>
    /\ state = GameStateNew
    /\ mode = "EzBaccarat"
    /\ panicked = FALSE
    /\ bonus_bets = BonusBetsNew
    /\ betting_round = BettingRoundNew(0)
    /\ returned = None

NextEz == PlayRound \/ MainBetPayout

SpecEz == InitEz /\ [][NextEz]_vars

\* ------------------------------------------- a front end's round of a game
\* Two ranks are enough for wins of either side, ties and pairs.
TotalRanks == {3, 5}

\* What is left of a ShoeDecks-deck shoe: PayoutCards hearts of TotalRanks.
IsTotalSource(source) ==
    \E ranks \in SeqsOfLen(TotalRanks, PayoutCards) :
        source = ShoeLeft(ShoeDecks,
                          [i \in 1..PayoutCards |-> Card(HEARTS, ranks[i])])

\* BaccaratGame::with_mode for any variant, on such a source.
InitTotal ==
    /\ IsTotalSource(card_source)
    /\ player_hand = << >>
    /\ banker_hand = << >>
    /\ state = GameStateNew
    /\ mode \in GameModes
    /\ panicked = FALSE
    /\ bonus_bets = BonusBetsNew
    /\ betting_round = BettingRoundNew(0)
    /\ returned = None

\* The bonus bets handed to a game: none, one kind, or all seven, at the
\* stake of 5 the front ends use.
AttachedBets ==
    {BonusBetsNew, [k \in BonusKinds |-> 5]}
    \cup {[BonusBetsNew EXCEPT ![k] = 5] : k \in BonusKinds}

\* BaccaratGame::set_bonus_bets with bets of the given set.
SetBonusBetsOf(bets_set) ==
    /\ ~panicked
    /\ \E bets \in bets_set : bonus_bets' = bets
    /\ UNCHANGED <<card_source, player_hand, banker_hand, state, mode, panicked,
                   betting_round, returned>>

\* BaccaratGame::set_bonus_bets
SetBonusBets == SetBonusBetsOf(AttachedBets)

\* One call of total_payout; what it returned is kept with its arguments.
TotalPayout ==
    /\ ~panicked
    /\ \E main_bet_type \in {"player", "banker", "tie", "dragon7", "panda8", "other"} :
       \E main_bet_amount \in CallStakes :
          returned' = Some([call |-> "total_payout",
                            bet_type |-> main_bet_type,
                            bet_amount |-> main_bet_amount,
                            value |-> total_payout(main_bet_type, main_bet_amount)])
    /\ UNCHANGED <<card_source, player_hand, banker_hand, state, mode, panicked,
                   bonus_bets, betting_round>>

NextTotal == PlayRound \/ SetBonusBets \/ TotalPayout

SpecTotal == InitTotal /\ [][NextTotal]_vars

\* ------------------------------------------------------ placing the bets
\* The balances a BettingRound is opened with: overdrawn, empty, room for
\* two small stakes, and room for bonus stakes that sum beyond a u8.
Balances == {-1, 0, 10, 400}

\* The amounts handed to place_main_bet and to place_bonus_bet (a u8).
MainAmounts == {-2, 0, 10, 401}
BonusAmounts == {0, 5, 200}

\* BettingRound::new beside a fresh game.
InitBetting ==
    /\ card_source = ShoeLeft(ShoeDecks, << >>)
    /\ player_hand = << >>
    /\ banker_hand = << >>
    /\ state = GameStateNew
    /\ mode = "Classic"
    /\ panicked = FALSE
    /\ bonus_bets = BonusBetsNew
    /\ \E balance \in Balances : betting_round = BettingRoundNew(balance)
    /\ returned = None

\* One call of place_main_bet with a selection and an amount of the given
\* sets.
PlaceMainBetOf(bet_types, amounts) ==
    /\ ~panicked
    /\ \E bet_type \in bet_types :
       \E amount \in amounts :
          LET r == place_main_bet(betting_round, bet_type, amount) IN
          /\ betting_round' = r.round
          /\ returned' = Some([call |-> "place_main_bet", value |-> r.result])
    /\ UNCHANGED <<card_source, player_hand, banker_hand, state, mode, panicked,
                   bonus_bets>>

\* One call of place_main_bet.
PlaceMainBet == PlaceMainBetOf(MainBetTypes \cup {"dragon7", ""}, MainAmounts)

\* The u8 sum of the placed bonus stakes overflows only from 256 on, and
\* only then does the build's overflow check matter.
BetOverflowChecks ==
    IF BonusSum(betting_round.bonus_bets) >= U8 THEN BOOLEAN ELSE {FALSE}

\* One call of place_bonus_bet with a kind and a stake of the given sets.
\* A panic ends the program.
PlaceBonusBetOf(bet_types, amounts) ==
    /\ ~panicked
    /\ \E bet_type \in bet_types :
       \E amount \in amounts :
       \E oc \in BetOverflowChecks :
          LET r == place_bonus_bet(betting_round, bet_type, amount, oc) IN
          /\ betting_round' = r.round
          /\ panicked' = r.panicked
          /\ returned' = IF r.panicked THEN returned
                         ELSE Some([call |-> "place_bonus_bet", value |-> r.result])
    /\ UNCHANGED <<card_source, player_hand, banker_hand, state, mode, bonus_bets>>

\* One call of place_bonus_bet.
PlaceBonusBet == PlaceBonusBetOf(BonusKinds \cup {"tie"}, BonusAmounts)

NextBetting == PlaceMainBet \/ PlaceBonusBet

SpecBetting == InitBetting /\ [][NextBetting]_vars

\* ----------------------------------------------------- settling the bets
\* Rounds settled on one BettingRound in the settling specification.
MaxHands == 2

\* What is left of a ShoeDecks-deck shoe: four hearts of TotalRanks for the
\* initial deal over two threes for the third cards.
IsSettleSource(source) ==
    \E ranks \in SeqsOfLen(TotalRanks, 4) :
        source = ShoeLeft(ShoeDecks,
                          <<Card(HEARTS, 3), Card(HEARTS, 3)>>
                          \o [i \in 1..4 |-> Card(HEARTS, ranks[i])])

\* The balances the settled BettingRound is opened with.
SettleBalances == {10, 400}

\* A Speed game on such a source and a BettingRound beside it.
InitSettle ==
    /\ IsSettleSource(card_source)
    /\ player_hand = << >>
    /\ banker_hand = << >>
    /\ state = GameStateNew
    /\ mode = "Speed"
    /\ panicked = FALSE
    /\ bonus_bets = BonusBetsNew
    /\ \E balance \in SettleBalances : betting_round = BettingRoundNew(balance)
    /\ returned = None

\* One call of settle_round with the game.  A panic ends the program.
SettleRound ==
    /\ ~panicked
    /\ betting_round.round_stats.hands_played < MaxHands
    /\ \E oc \in BetOverflowChecks :
          LET r == settle_round(betting_round, oc) IN
          /\ betting_round' = r.round
          /\ panicked' = r.panicked
          /\ returned' = IF r.panicked THEN returned
                         ELSE Some([call |-> "settle_round", value |-> r.result[1]])
    /\ UNCHANGED <<card_source, player_hand, banker_hand, state, mode, bonus_bets>>

\* Hits of one kind on a BettingRound in the settling specification, and the
\* kinds recorded by a direct call.
MaxHits == 1
RecordedKinds == {"player_pair", "lucky_6"}

\* One call of record_bonus_hit on the round_stats of the BettingRound,
\* outside any settle_round (the method and the field are public).
RecordBonusHit ==
    /\ ~panicked
    /\ \E bonus_type \in RecordedKinds :
          /\ HitsOf(betting_round.round_stats, bonus_type) < MaxHits
          /\ betting_round' =
                [betting_round EXCEPT !.round_stats = record_bonus_hit(@, bonus_type)]
    /\ UNCHANGED <<card_source, player_hand, banker_hand, state, mode, panicked,
                   bonus_bets, returned>>

\* The calls of the settling specification.  Bets are placed before the
\* first settlement: 10 on the player, 5 or 200 on two pair kinds; the game
\* is handed all seven bonus bets at 5 or none.
SettlePlaceMainBet ==
    /\ betting_round.round_stats.hands_played = 0
    /\ PlaceMainBetOf({"player"}, {10})
SettlePlaceBonusBet ==
    /\ betting_round.round_stats.hands_played = 0
    /\ PlaceBonusBetOf({"player_pair", "either_pair"}, {5, 200})
SettleSetBonusBets == SetBonusBetsOf({[k \in BonusKinds |-> 5]})

NextSettle ==
    \/ PlayRound
    \/ SettleSetBonusBets
    \/ SettlePlaceMainBet
    \/ SettlePlaceBonusBet
    \/ SettleRound
    \/ RecordBonusHit

SpecSettle == InitSettle /\ [][NextSettle]_vars

\* ------------------------------------------ full sources and reshuffling
\* Shoes of 1..MaxDecks decks.
MaxDecks == 4

\* Deck::new: suits 0..3, ranks 1..13 under each, pushed in that order.
DeckNewCards == [i \in 1..52 |-> Card((i - 1) \div 13, ((i - 1) % 13) + 1)]

\* The random draws of a shuffle, numbered: the specifications draw the
\* shuffles 0..NumShuffles - 1.
NumShuffles == 3
Shuffles == 0..(NumShuffles - 1)

\* cards with the cards at i and j exchanged (slice::swap).
Swap(cards, i, j) ==
    [m \in 1..Len(cards) |-> IF m = i THEN cards[j]
                             ELSE IF m = j THEN cards[i] ELSE cards[m]]

\* The Fisher-Yates pass of slice::shuffle over the first i cards: place
\* after place, the card there is exchanged with one at a drawn place at or
\* before it.  The draws are the digits of `shuffle`, the last place first:
\* digit 0 leaves the card where it is, and shuffle 0 draws nothing but 0s.
RECURSIVE ShufflePass(_, _, _)
ShufflePass(cards, i, shuffle) ==
    IF i <= 1 \/ shuffle = 0 THEN cards
    ELSE Swap(ShufflePass(cards, i - 1, shuffle \div i), i, i - (shuffle % i))

\* slice::shuffle: the cards in the order the numbered draws leave them in.
\* The shuffles 0..n! - 1 of n cards are their n! orders.
Shuffled(cards, shuffle) == ShufflePass(cards, Len(cards), shuffle)

\* How many times a card is among `cards`.
CountOf(card, cards) == Cardinality({i \in DOMAIN cards : cards[i] = card})

\* What slice::shuffle can leave of `cards`: the same cards in any order.
IsShuffleOf(shuffled, cards) ==
    /\ Len(shuffled) = Len(cards)
    /\ \A i \in DOMAIN cards : CountOf(cards[i], shuffled) = CountOf(cards[i], cards)

\* Deck::new then Deck::shuffle, as a card source.
DeckNew(shuffle) == DeckLeft(Shuffled(DeckNewCards, shuffle))

\* The cards Shoe::new pushes: num_decks decks, one after the other.
ShoeNewCards(num_decks) ==
    [i \in 1..(52 * num_decks) |-> DeckNewCards[((i - 1) % 52) + 1]]

\* Shoe::new
ShoeNew(num_decks, shuffle) ==
    [kind |-> "Shoe", cards |-> Shuffled(ShoeNewCards(num_decks), shuffle),
     num_decks |-> num_decks,
     cut_card_position |-> CutCardPosition(num_decks),
     cards_dealt |-> 0]

\* A CardSource::reshuffle that shuffles the cards that are left.
reshuffle_what_is_left(src, shuffle) ==
    [src EXCEPT !.cards = Shuffled(src.cards, shuffle)]

\* Deck::shuffle on the deck of a single-deck source: the cards that are
\* left, reordered in place.
DeckShuffle(src, shuffle) ==
    [src EXCEPT !.cards = Shuffled(src.cards, shuffle)]

\* CardSource::reshuffle, Shoe::reshuffle
reshuffle(src, shuffle) ==
    IF src.kind = "SingleDeck" THEN DeckNew(shuffle)
    ELSE ShoeNew(src.num_decks, shuffle)

\* source is the card source of a game BaccaratGame::with_mode (a shuffled
\* single deck) or with_shoe(n) has just built, whatever the shuffle gave.
IsFullSource(source) ==
    \/ /\ source.kind = "SingleDeck"
       /\ source = DeckLeft(source.cards)
       /\ IsShuffleOf(source.cards, DeckNewCards)
    \/ /\ source.kind = "Shoe"
       /\ source.num_decks >= 1
       /\ source = [ShoeNew(source.num_decks, 0) EXCEPT !.cards = source.cards]
       /\ IsShuffleOf(source.cards, ShoeNewCards(source.num_decks))

\* The full sources the specifications start from: a single deck and shoes
\* of 1..MaxDecks decks, in the orders of the numbered shuffles.
FullSources ==
    {DeckNew(shuffle) : shuffle \in Shuffles}
        \cup {ShoeNew(n, shuffle) : n \in 1..MaxDecks, shuffle \in Shuffles}

InitSource ==
    /\ card_source \in FullSources
    /\ IsFullSource(card_source)
    /\ player_hand = << >>
    /\ banker_hand = << >>
    /\ state = GameStateNew
    /\ mode = "Classic"
    /\ panicked = FALSE
    /\ bonus_bets = BonusBetsNew
    /\ betting_round = BettingRoundNew(0)
    /\ returned = None

game_vars == <<player_hand, banker_hand, state, mode, panicked, bonus_bets,
               betting_round>>

\* The calls on the card source leave in `returned` what they returned and
\* the source they were made on.
\* card_source.deal()
Deal ==
    LET r == CardSourceDeal(card_source) IN
    /\ card_source' = r.source
    /\ returned' = Some([call |-> "deal", value |-> r.card,
                         source |-> card_source])
    /\ UNCHANGED game_vars

\* card_source.needs_reshuffle(): a method of &self.
NeedsReshuffle ==
    /\ returned' = Some([call |-> "needs_reshuffle",
                         value |-> needs_reshuffle(card_source),
                         source |-> card_source])
    /\ UNCHANGED card_source
    /\ UNCHANGED game_vars

\* card_source.reshuffle()
Reshuffle ==
    /\ \E shuffle \in Shuffles :
          card_source' = reshuffle(card_source, shuffle)
    /\ returned' = Some([call |-> "reshuffle", value |-> None,
                         source |-> card_source])
    /\ UNCHANGED game_vars

NextSource == Deal \/ NeedsReshuffle \/ Reshuffle

SpecSource == InitSource /\ [][NextSource]_vars

\* ------------------------------------------------- the reshuffle protocol
\* Rounds go on while the two hands hold fewer cards than this.
ProtocolCards == 180

\* The caller's step before a round: reshuffle() when needs_reshuffle().
ProtocolReshuffle ==
    /\ ~panicked
    /\ needs_reshuffle(card_source)
    /\ \E shuffle \in Shuffles :
          card_source' = reshuffle(card_source, shuffle)
    /\ UNCHANGED <<player_hand, banker_hand, state, mode, panicked, betting_vars>>

\* play_round(), called once needs_reshuffle() is false.
ProtocolPlayRound ==
    /\ ~needs_reshuffle(card_source)
    /\ Len(player_hand) + Len(banker_hand) < ProtocolCards
    /\ PlayRound

NextProtocol == ProtocolReshuffle \/ ProtocolPlayRound

SpecProtocol == InitSource /\ [][NextProtocol]_vars

\* ------------------------------------------------ the sum of the stakes
\* The stakes of the BonusBets handed to total_bet: the ends of a u8 and 1.
TotalBetStakes == {0, 1, U8 - 1}

\* A BonusBets with any of these stakes on each kind (its fields are public),
\* attached to a fresh game.
InitTotalBet ==
    /\ card_source = ShoeLeft(ShoeDecks, << >>)
    /\ player_hand = << >>
    /\ banker_hand = << >>
    /\ state = GameStateNew
    /\ mode = "Classic"
    /\ panicked = FALSE
    /\ bonus_bets \in [BonusKinds -> TotalBetStakes]
    /\ betting_round = BettingRoundNew(0)
    /\ returned = None

\* One call of bonus_bets.total_bet().  The u8 additions overflow when the
\* stakes sum to 256 or more: a build with overflow checks panics there.
TotalBet ==
    /\ ~panicked
    /\ \E oc \in (IF BonusSum(bonus_bets) >= U8 THEN BOOLEAN ELSE {FALSE}) :
          IF oc /\ BonusSum(bonus_bets) >= U8
          THEN panicked' = TRUE /\ UNCHANGED returned
          ELSE /\ returned' = Some([call |-> "total_bet",
                                    value |-> total_bet(bonus_bets)])
               /\ UNCHANGED panicked
    /\ UNCHANGED <<card_source, player_hand, banker_hand, state, mode, bonus_bets,
                   betting_round>>

NextTotalBet == TotalBet

SpecTotalBet == InitTotalBet /\ [][NextTotalBet]_vars

\* ------------------------------------------------ pairs out of the decks
\* Shoes of 1..PairDecks decks beside the single deck.
PairDecks == 2
\* Rounds go on while the two hands hold fewer cards than this.
PairCards == 8
\* The sources dealt down hold PairLeft cards (enough for a round) of the
\* ranks 1..PairRanks in the suits 0..PairSuits - 1.
PairLeft == 5
PairRanks == 3
PairSuits == 2

PairDeckCards == {Card(suit, rank) : suit \in 0..(PairSuits - 1), rank \in 1..PairRanks}

\* cards holds no card more often than `decks` decks do.
FitsDecks(cards, decks) ==
    \A i \in DOMAIN cards :
        Cardinality({j \in DOMAIN cards : cards[j] = cards[i]}) <= decks

\* The full sources of the pair specification: a single deck and shoes of
\* 1..PairDecks decks, in the orders of the numbered shuffles.
PairFullSources ==
    {DeckNew(shuffle) : shuffle \in Shuffles}
        \cup {ShoeNew(n, shuffle) : n \in 1..PairDecks, shuffle \in Shuffles}

\* BaccaratGame::with_mode (a single deck) or with_shoe(n): the source as it
\* was built, or dealt down by card_source.deal() to PairLeft cards in any
\* order the decks allow (the last one is dealt next).
IsPairSource(source) ==
    \/ source \in PairFullSources
    \/ \E cards \in SeqsOfLen(PairDeckCards, PairLeft) :
          \/ /\ FitsDecks(cards, 1)
             /\ source = DeckLeft(cards)
          \/ \E n \in 1..PairDecks :
                /\ FitsDecks(cards, n)
                /\ source = ShoeLeft(n, cards)

InitPair ==
    /\ IsPairSource(card_source)
    /\ player_hand = << >>
    /\ banker_hand = << >>
    /\ state = GameStateNew
    /\ mode = "Classic"
    /\ panicked = FALSE
    /\ bonus_bets = BonusBetsNew
    /\ betting_round = BettingRoundNew(0)
    /\ returned = None

\* play_round(), while the hands are short of PairCards cards.
PairPlayRound ==
    /\ Len(player_hand) + Len(banker_hand) < PairCards
    /\ PlayRound

\* deck.shuffle() on the deck of a single-deck game, between its rounds (the
\* method is public and the deck is reached through the public field
\* card_source).
Shuffle ==
    /\ ~panicked
    /\ card_source.kind = "SingleDeck"
    /\ \E shuffle \in Shuffles :
          card_source' = DeckShuffle(card_source, shuffle)
    /\ UNCHANGED <<player_hand, banker_hand, state, mode, panicked, betting_vars>>

NextPair == ProtocolReshuffle \/ PairPlayRound \/ Shuffle

SpecPair == InitPair /\ [][NextPair]_vars

\* ================================================================ claims
\* The score of the first two cards of a hand.
TwoCardScore(hand) == (baccarat_value(hand[1]) + baccarat_value(hand[2])) % 10

\* The winner the scores call for: 1 player, 2 banker, 3 tie.
WinnerOf(ps, bs) == IF ps > bs THEN 1 ELSE IF bs > ps THEN 2 ELSE 3

\* play_round has returned from its first call on the game (a second call
\* adds at least two cards to each hand before it can return).
FirstRoundDone ==
    /\ ~panicked
    /\ state.round_complete = 1
    /\ Len(player_hand) <= 3
    /\ Len(banker_hand) <= 3

\* The first round was ended by a natural.
NaturalDealt == TwoCardScore(player_hand) >= 8 \/ TwoCardScore(banker_hand) >= 8

\* This step is a call of play_round on a game with empty hands.
FreshRoundStep ==
    /\ PlayRound
    /\ ~panicked /\ player_hand = << >> /\ banker_hand = << >>

\* Cards the step took from the source.
CardsTaken == Len(card_source.cards) - Len(card_source.cards')

\* C1: for every game whose source holds at least 6 cards, when play_round
\* returns round_complete is set and the winner is the player on a strictly
\* higher player score, the banker on a strictly higher banker score, a tie
\* on equal scores; the winner is never none.
C1_WinnerByScores ==
    [][(PlayRound /\ ~panicked /\ Len(card_source.cards) >= 6 /\ ~panicked')
        => /\ state'.round_complete = 1
           /\ state'.winner \in {1, 2, 3}
           /\ (state'.winner = 1 <=> state'.player_score > state'.banker_score)
           /\ (state'.winner = 2 <=> state'.banker_score > state'.player_score)
           /\ (state'.winner = 3 <=> state'.player_score = state'.banker_score)]_vars

\* A six-card round the banker has won.
C1_Witness ==
    /\ FirstRoundDone
    /\ Len(player_hand) = 3 /\ Len(banker_hand) = 3
    /\ state.winner = 2 /\ state.banker_score > state.player_score

\* The table of the claim: banker score b, player third-card value p3.
ClaimedBankerDraws(b, p3) ==
    \/ b \in {0, 1, 2}
    \/ b = 3 /\ (p3 = None \/ p3[1] # 8)
    \/ b = 4 /\ p3 # None /\ p3[1] >= 2 /\ p3[1] <= 7
    \/ b = 5 /\ p3 # None /\ p3[1] >= 4 /\ p3[1] <= 7
    \/ b = 6 /\ p3 # None /\ (p3[1] = 6 \/ p3[1] = 7)

\* The player's third-card value in a finished first round.
PlayerThirdValue ==
    IF Len(player_hand) = 3 THEN Some(baccarat_value(player_hand[3])) ELSE None

\* C2: in a round without a natural the banker draws a third card exactly
\* when the third-card table says so, for every banker two-card score and
\* every player third-card value or none; never on 7, and on 4, 5, 6 never
\* when the player stood.
C2_BankerTable ==
    (FirstRoundDone /\ ~NaturalDealt)
        => /\ (Len(banker_hand) = 3
                <=> ClaimedBankerDraws(TwoCardScore(banker_hand), PlayerThirdValue))
           /\ (TwoCardScore(banker_hand) = 7 => Len(banker_hand) = 2)
           /\ (TwoCardScore(banker_hand) \in {4, 5, 6} /\ Len(player_hand) = 2
                => Len(banker_hand) = 2)

\* The asymmetric row: the banker on 3 draws although the player stood.
C2_Witness ==
    /\ FirstRoundDone /\ ~NaturalDealt
    /\ Len(player_hand) = 2
    /\ TwoCardScore(banker_hand) = 3
    /\ Len(banker_hand) = 3

\* C3: when either two-card score is 8 or 9, play_round deals no further
\* card: exactly 4 cards leave the source and the winner follows from the
\* two-card scores.
C3_Natural ==
    [][(FreshRoundStep /\ ~panicked' /\ NaturalDealt')
        => /\ CardsTaken = 4
           /\ Len(player_hand') = 2 /\ Len(banker_hand') = 2
           /\ state'.round_complete = 1
           /\ state'.winner = WinnerOf(TwoCardScore(player_hand'),
                                       TwoCardScore(banker_hand'))]_vars

\* A natural 8 against a hand that would otherwise have drawn.
C3_Witness ==
    /\ FirstRoundDone
    /\ TwoCardScore(player_hand) = 8
    /\ TwoCardScore(banker_hand) <= 2
    /\ Len(player_hand) = 2 /\ Len(banker_hand) = 2
    /\ state.winner = 1

\* C4 as claimed: a play_round started from empty hands always ends in the
\* Complete state having taken 4, 5 or 6 cards, whatever the source holds.
C4_AlwaysCompletes ==
    [][FreshRoundStep
        => /\ ~panicked'
           /\ state'.round_complete = 1
           /\ CardsTaken \in {4, 5, 6}]_vars

\* C4 as amended: a play_round started from empty hands on a source holding
\* at least 6 cards ends in the Complete state having taken exactly 4, 5 or
\* 6 cards; on a source that runs out it panics and never completes.
C4_CompletesOnSixCards ==
    [][FreshRoundStep
        => /\ Len(card_source.cards) >= 6
                => /\ ~panicked'
                   /\ state'.round_complete = 1
                   /\ CardsTaken \in {4, 5, 6}
                   /\ CardsTaken = Len(player_hand') + Len(banker_hand')
           /\ ~panicked' => CardsTaken \in {4, 5, 6}
           /\ panicked' => state'.round_complete = 0]_vars

\* A finished first round of five cards: the player drew, the banker stood.
C4_Witness ==
    /\ FirstRoundDone
    /\ Len(player_hand) = 3 /\ Len(banker_hand) = 2
    /\ Len(card_source.cards) = 1

\* C5: in every state of a game, also after play_round was called more than
\* once on it, each hand holds at most 3 cards.
C5_HandsAtMostThree ==
    ~panicked => Len(player_hand) <= 3 /\ Len(banker_hand) <= 3

\* C6: in a round without a natural the player has a third card exactly
\* when the player's two-card score is at most 5; on 6 or 7 the player
\* stands and the banker rule is applied to "none" (the banker then draws on
\* 0..3 only).
C6_PlayerThird ==
    (FirstRoundDone /\ ~NaturalDealt)
        => /\ (Len(player_hand) = 3 <=> TwoCardScore(player_hand) <= 5)
           /\ (TwoCardScore(player_hand) \in {6, 7}
                => /\ Len(player_hand) = 2
                   /\ (Len(banker_hand) = 3 <=> TwoCardScore(banker_hand) <= 3))

\* The player stands on 6 and the banker on 5 stands with it.
C6_Witness ==
    /\ FirstRoundDone /\ ~NaturalDealt
    /\ TwoCardScore(player_hand) = 6 /\ Len(player_hand) = 2
    /\ TwoCardScore(banker_hand) = 5 /\ Len(banker_hand) = 2

\* C7: in every state the stored scores are the sums of the baccarat values
\* of the hands mod 10, both in 0..9.
C7_ScoresMatchHands ==
    ~panicked
        => /\ state.player_score = SumValues(player_hand) % 10
           /\ state.banker_score = SumValues(banker_hand) % 10
           /\ state.player_score \in 0..9 /\ state.banker_score \in 0..9

\* C8: the first four cards taken from the source go player, banker,
\* player, banker: the player holds [c1, c3] and the banker [c2, c4].
C8_DealOrder ==
    [][(FreshRoundStep /\ Len(card_source.cards) >= 4)
        => LET cards == card_source.cards
               n == Len(cards)
           IN /\ SubSeq(player_hand', 1, 2) = <<cards[n], cards[n - 2]>>
              /\ SubSeq(banker_hand', 1, 2) = <<cards[n - 1], cards[n - 3]>>
              /\ CardsTaken >= 4
              /\ card_source.cards' = SubSeq(cards, 1, n - CardsTaken)]_vars

\* A natural round whose four cards all differ in rank.
C8_Witness ==
    /\ FirstRoundDone
    /\ Len(player_hand) = 2 /\ Len(banker_hand) = 2
    /\ Cardinality({player_hand[1].rank, player_hand[2].rank,
                    banker_hand[1].rank, banker_hand[2].rank}) = 4

\* The selections a payout is asked for, and the stakes: every small stake
\* and the least stakes at which an f32 product is no longer the exact one
\* (393221 for x 1.95, 5592409 for x 1.5).
Selections == {"player", "banker", "tie", "dragon7", "panda8", "other"}
LargeStakes == {393221, 5592409}
Stakes == 0..MaxStake \cup LargeStakes

\* C9: Classic pays 2 x stake on player for a player win,
\* floor(stake x 195 / 100) on banker for a banker win, 9 x stake on tie for
\* a tie, and 0 for every other (selection, outcome) pair, for every stake
\* and every finished round.
C9_ClassicPayout ==
    (~panicked /\ state.round_complete = 1) => \A stake \in Stakes :
        /\ classic_payout("player", stake) = (IF state.winner = 1 THEN 2 * stake ELSE 0)
        /\ classic_payout("banker", stake)
              = (IF state.winner = 2 THEN (stake * 195) \div 100 ELSE 0)
        /\ classic_payout("tie", stake) = (IF state.winner = 3 THEN 9 * stake ELSE 0)
        /\ \A sel \in Selections \ {"player", "banker", "tie"} :
              classic_payout(sel, stake) = 0

\* C10: NoCommission pays floor(stake x 3 / 2) on banker when the banker
\* wins with exactly 6 and 2 x stake on every other banker win, 2 x stake on
\* player for a player win, 9 x stake on tie for a tie, 0 otherwise, for
\* every stake and every finished round.
C10_NoCommissionPayout ==
    (~panicked /\ state.round_complete = 1) => \A stake \in Stakes :
        /\ no_commission_payout("player", stake)
              = (IF state.winner = 1 THEN 2 * stake ELSE 0)
        /\ no_commission_payout("banker", stake)
              = (IF state.winner # 2 THEN 0
                 ELSE IF state.banker_score = 6 THEN (stake * 3) \div 2
                 ELSE 2 * stake)
        /\ no_commission_payout("tie", stake)
              = (IF state.winner = 3 THEN 9 * stake ELSE 0)
        /\ \A sel \in Selections \ {"player", "banker", "tie"} :
              no_commission_payout(sel, stake) = 0

\* A round play_round has finished.
RoundDone == ~panicked /\ state.round_complete = 1

\* C11: in the Speed variant 'player' on a player win and 'banker' on a
\* banker win pay 2 x stake, 'tie' on a tie pays 8 x stake, and every other
\* (selection, outcome) pair pays 0.
C11_SpeedPayout ==
    (RoundDone /\ mode = "Speed") => \A stake \in Stakes :
        /\ calculate_main_bet_payout("player", stake)
              = (IF state.winner = 1 THEN 2 * stake ELSE 0)
        /\ calculate_main_bet_payout("banker", stake)
              = (IF state.winner = 2 THEN 2 * stake ELSE 0)
        /\ calculate_main_bet_payout("tie", stake)
              = (IF state.winner = 3 THEN 8 * stake ELSE 0)
        /\ \A sel \in Selections \ {"player", "banker", "tie"} :
              calculate_main_bet_payout(sel, stake) = 0

\* A tied Speed round: 100 on the tie pays 800.
C11_Witness ==
    /\ RoundDone /\ mode = "Speed"
    /\ state.winner = 3
    /\ calculate_main_bet_payout("tie", 100) = 800
    /\ calculate_main_bet_payout("banker", 100) = 0

\* The banker hand of the 7-push: the banker has won with exactly 3 cards,
\* score 7, every card of baccarat value 0.
SevenPushHand ==
    /\ state.winner = 2
    /\ Len(banker_hand) = 3
    /\ state.banker_score = 7
    /\ \A i \in 1..Len(banker_hand) : baccarat_value(banker_hand[i]) = 0

\* C12: in EzBaccarat, when the banker has won with exactly 3 cards, score 7
\* and every banker card of baccarat value 0, a 'banker' selection pays
\* exactly the stake, not twice the stake.
C12_SevenPush ==
    (/\ returned # None
     /\ returned[1].call = "calculate_main_bet_payout"
     /\ returned[1].bet_type = "banker"
     /\ mode = "EzBaccarat"
     /\ SevenPushHand)
        => /\ returned[1].value = returned[1].bet_amount
           /\ returned[1].value # 2 * returned[1].bet_amount

\* 100 on the banker was paid 100 on such a hand.
C12_Witness ==
    /\ returned # None
    /\ returned[1].call = "calculate_main_bet_payout"
    /\ returned[1].bet_type = "banker"
    /\ returned[1].bet_amount = 100
    /\ returned[1].value = 100
    /\ mode = "EzBaccarat"
    /\ SevenPushHand

\* C13: 'dragon7' pays 40 x stake exactly when the variant is EzBaccarat and
\* the banker wins with exactly 3 cards and score 7; 'panda8' pays 25 x stake
\* exactly when the variant is EzBaccarat and the player wins with exactly 3
\* cards and score 8; in Classic, NoCommission and Speed both pay 0.
C13_DragonPanda ==
    RoundDone => \A stake \in Stakes :
        /\ calculate_main_bet_payout("dragon7", stake)
              = (IF /\ mode = "EzBaccarat"
                    /\ state.winner = 2
                    /\ Len(banker_hand) = 3
                    /\ state.banker_score = 7
                 THEN 40 * stake ELSE 0)
        /\ calculate_main_bet_payout("panda8", stake)
              = (IF /\ mode = "EzBaccarat"
                    /\ state.winner = 1
                    /\ Len(player_hand) = 3
                    /\ state.player_score = 8
                 THEN 25 * stake ELSE 0)

\* An EzBaccarat round the banker wins with a three-card 7: 100 on dragon7
\* pays 4000, 100 on panda8 nothing.
C13_Witness ==
    /\ RoundDone /\ mode = "EzBaccarat"
    /\ state.winner = 2 /\ state.banker_score = 7 /\ Len(banker_hand) = 3
    /\ calculate_main_bet_payout("dragon7", 100) = 4000
    /\ calculate_main_bet_payout("panda8", 100) = 0

\* The bonus stakes tried together: every kind off or on at the 5 the front
\* ends stake, seven different stakes, and the largest u8 on every kind.
BetVectors ==
    [BonusKinds -> {0, 5}]
    \cup {[player_pair |-> 1, banker_pair |-> 2, either_pair |-> 4,
           perfect_pair |-> 8, player_dragon |-> 16, banker_dragon |-> 32,
           lucky_6 |-> 64],
          [k \in BonusKinds |-> U8 - 1]}

\* The first two cards of a hand share the rank / the rank and the suit.
PairIn(hand) == hand[1].rank = hand[2].rank
PerfectPairIn(hand) == PairIn(hand) /\ hand[1].suit = hand[2].suit

\* The margin of the claims: |player_score - banker_score|, 0 on a tie or
\* without a winner.
ClaimedMargin ==
    IF state.winner \in {1, 2} THEN Abs(state.player_score - state.banker_score)
    ELSE 0

\* The dragon multiplier of the claims for the margins 1..9.
ClaimedDragonMultiplier == <<0, 0, 0, 1, 2, 4, 6, 10, 30>>

\* What one bonus bet pays by the claims: stake x multiplier when its
\* condition holds in the finished round, 0 otherwise.
ClaimedBonus(kind, stake) ==
    CASE kind = "player_pair" ->
            IF PairIn(player_hand) THEN 11 * stake ELSE 0
      [] kind = "banker_pair" ->
            IF PairIn(banker_hand) THEN 11 * stake ELSE 0
      [] kind = "either_pair" ->
            IF PairIn(player_hand) \/ PairIn(banker_hand) THEN 5 * stake ELSE 0
      [] kind = "perfect_pair" ->
            IF PerfectPairIn(player_hand) \/ PerfectPairIn(banker_hand)
            THEN 25 * stake ELSE 0
      [] kind = "player_dragon" ->
            IF state.winner = 1 /\ ClaimedMargin >= 1
            THEN ClaimedDragonMultiplier[ClaimedMargin] * stake ELSE 0
      [] kind = "banker_dragon" ->
            IF state.winner = 2 /\ ClaimedMargin >= 1
            THEN ClaimedDragonMultiplier[ClaimedMargin] * stake ELSE 0
      [] kind = "lucky_6" ->
            IF state.winner = 2 /\ state.banker_score = 6
            THEN (IF Len(banker_hand) = 3 THEN 20 ELSE 12) * stake
            ELSE 0

\* C14: for every finished round and every vector of seven stakes the bonus
\* payout is the sum over the seven bets of stake x multiplier when the bet's
\* condition holds and 0 otherwise (player_pair and banker_pair 11 x,
\* either_pair 5 x on a player pair or a banker pair whether or not those
\* bets are placed, perfect_pair 25 x); a stake of 0 adds 0; the game variant
\* plays no part.
C14_BonusAdditive ==
    RoundDone => \A bets \in BetVectors :
        calculate_payouts(bets)
            = ClaimedBonus("player_pair", bets.player_pair)
              + ClaimedBonus("banker_pair", bets.banker_pair)
              + ClaimedBonus("either_pair", bets.either_pair)
              + ClaimedBonus("perfect_pair", bets.perfect_pair)
              + ClaimedBonus("player_dragon", bets.player_dragon)
              + ClaimedBonus("banker_dragon", bets.banker_dragon)
              + ClaimedBonus("lucky_6", bets.lucky_6)

\* A Speed round with a banker pair that is no perfect pair and no player
\* pair: either_pair alone pays 5 x, and with banker_pair beside it the two
\* add up.
C14_Witness ==
    /\ RoundDone /\ mode = "Speed"
    /\ PairIn(banker_hand) /\ ~PerfectPairIn(banker_hand) /\ ~PairIn(player_hand)
    /\ calculate_payouts([BonusBetsNew EXCEPT !.either_pair = 5]) = 25
    /\ calculate_payouts([BonusBetsNew EXCEPT !.either_pair = 5, !.banker_pair = 5,
                                               !.perfect_pair = 5, !.player_pair = 5])
          = 80

\* Every u8 stake on one bonus kind, the other six at 0.
OnlyBet(kind, stake) == [BonusBetsNew EXCEPT ![kind] = stake]

\* C15: player_dragon (banker_dragon) pays only when the player (banker)
\* wins, at stake x m with m = 30, 10, 6, 4, 2, 1 for a victory margin of
\* 9, 8, 7, 6, 5, 4 and 0 for a margin of 3 or less; the victory margin is
\* |player_score - banker_score|, and 0 on a tie or without a winner.
C15_DragonBonus ==
    /\ victory_margin = ClaimedMargin
    /\ RoundDone => \A stake \in 0..(U8 - 1) :
            LET m == CASE victory_margin = 9 -> 30
                       [] victory_margin = 8 -> 10
                       [] victory_margin = 7 -> 6
                       [] victory_margin = 6 -> 4
                       [] victory_margin = 5 -> 2
                       [] victory_margin = 4 -> 1
                       [] OTHER -> 0
            IN /\ calculate_payouts(OnlyBet("player_dragon", stake))
                     = (IF state.winner = 1 THEN stake * m ELSE 0)
               /\ calculate_payouts(OnlyBet("banker_dragon", stake))
                     = (IF state.winner = 2 THEN stake * m ELSE 0)

\* The banker wins 9 to 0: banker_dragon pays 30 x, player_dragon nothing.
C15_Witness ==
    /\ RoundDone
    /\ state.winner = 2 /\ state.banker_score = 9 /\ state.player_score = 0
    /\ victory_margin = 9
    /\ calculate_payouts(OnlyBet("banker_dragon", 5)) = 150
    /\ calculate_payouts(OnlyBet("player_dragon", 5)) = 0

\* C16: lucky_6 pays exactly when the banker wins with a final score of 6:
\* 20 x stake when the winning banker hand has 3 cards, 12 x stake when it
\* has 2 cards, and 0 in every other round.
C16_LuckySix ==
    RoundDone => \A stake \in 0..(U8 - 1) :
        LET paid == calculate_payouts(OnlyBet("lucky_6", stake)) IN
        /\ (stake > 0 => (paid > 0 <=> state.winner = 2 /\ state.banker_score = 6))
        /\ (state.winner = 2 /\ state.banker_score = 6 /\ Len(banker_hand) = 3)
              => paid = 20 * stake
        /\ (state.winner = 2 /\ state.banker_score = 6 /\ Len(banker_hand) = 2)
              => paid = 12 * stake
        /\ ~(state.winner = 2 /\ state.banker_score = 6) => paid = 0

\* The banker wins with a three-card 6: 5 on lucky_6 pays 100.
C16_Witness ==
    /\ RoundDone
    /\ state.winner = 2 /\ state.banker_score = 6 /\ Len(banker_hand) = 3
    /\ calculate_payouts(OnlyBet("lucky_6", 5)) = 100

\* The sum of the seven bonus terms of the claims for the attached bets.
ClaimedBonusTotal(bets) ==
    ClaimedBonus("player_pair", bets.player_pair)
    + ClaimedBonus("banker_pair", bets.banker_pair)
    + ClaimedBonus("either_pair", bets.either_pair)
    + ClaimedBonus("perfect_pair", bets.perfect_pair)
    + ClaimedBonus("player_dragon", bets.player_dragon)
    + ClaimedBonus("banker_dragon", bets.banker_dragon)
    + ClaimedBonus("lucky_6", bets.lucky_6)

\* This step is a call of total_payout on a finished round.
TotalPayoutStep ==
    /\ RoundDone
    /\ returned' # returned
    /\ returned' # None
    /\ returned'[1].call = "total_payout"

\* C17: total_payout(selection, stake) returns the variant's main-bet payout
\* plus the bonus payout of the bets attached to the game, and leaves the
\* hands, the scores, the winner, the card source and the bonus bets as they
\* were.
C17_TotalPayout ==
    [][TotalPayoutStep
        => /\ returned'[1].value
                = calculate_main_bet_payout(returned'[1].bet_type,
                                            returned'[1].bet_amount)
                  + ClaimedBonusTotal(bonus_bets)
           /\ UNCHANGED <<card_source, player_hand, banker_hand, state, mode,
                          bonus_bets, panicked>>]_vars

\* total_payout has returned a main payout of 200 and a bonus payout on top
\* of it.
C17_Witness ==
    /\ RoundDone
    /\ returned # None
    /\ returned[1].call = "total_payout"
    /\ returned[1].bet_amount = 100
    /\ calculate_main_bet_payout(returned[1].bet_type, 100) = 200
    /\ calculate_payouts(bonus_bets) > 0
    /\ returned[1].value = 200 + calculate_payouts(bonus_bets)

\* The selections and amounts tried on place_main_bet in every state: the
\* three valid selections and three others, the amounts of the calls and
\* the amounts around 0 and around the balance.
TrialBetTypes == MainBetTypes \cup {"dragon7", "Player", ""}
TrialAmounts ==
    MainAmounts \cup {-1, 1}
    \cup {betting_round.balance - 1, betting_round.balance, betting_round.balance + 1}

\* C18: place_main_bet with an amount <= 0, or an amount above the balance,
\* or a selection other than 'player', 'banker', 'tie' returns an error and
\* leaves the balance, the main bet selection and amount, the bonus bets and
\* the statistics as they were.
C18_MainBetRejected ==
    \A bet_type \in TrialBetTypes : \A amount \in TrialAmounts :
        (amount <= 0 \/ amount > betting_round.balance \/ bet_type \notin MainBetTypes)
            => LET r == place_main_bet(betting_round, bet_type, amount) IN
               /\ r.result # Ok
               /\ r.round.balance = betting_round.balance
               /\ r.round.main_bet_type = betting_round.main_bet_type
               /\ r.round.main_bet_amount = betting_round.main_bet_amount
               /\ r.round.bonus_bets = betting_round.bonus_bets
               /\ r.round.round_stats = betting_round.round_stats

\* The last call of place_main_bet was rejected, and the 10 on the player
\* and the 5 on lucky_6 placed before it stand.
C18_Witness ==
    /\ returned = Some([call |-> "place_main_bet",
                        value |-> Err("Invalid bet type")])
    /\ betting_round.main_bet_type = "player"
    /\ betting_round.main_bet_amount = 10
    /\ betting_round.bonus_bets.lucky_6 = 5
    /\ betting_round.balance = 400

\* The error kind of the specification that a returned message stands for.
ErrorKind(result) ==
    CASE result = Err("Insufficient balance") -> "InsufficientBalance"
      [] result = Err("Insufficient balance for bonus bet") -> "InsufficientBalance"
      [] result = Err("Bet amount must be positive") -> "InvalidAmount"
      [] result = Err("Invalid bet type") -> "InvalidSelection"
      [] result = Err("Invalid bonus bet type") -> "InvalidSelection"
      [] OTHER -> "None"

\* C19 as claimed: place_main_bet reports one and the same kind,
\* InvalidAmount, for an amount <= 0 and for an amount above the balance,
\* and InvalidSelection for a selection other than player, banker, tie
\* (on an amount that is in order).
C19_OneAmountError ==
    \A bet_type \in TrialBetTypes : \A amount \in TrialAmounts :
        LET kind == ErrorKind(place_main_bet(betting_round, bet_type, amount).result) IN
        /\ amount <= 0 => kind = "InvalidAmount"
        /\ amount > betting_round.balance => kind = "InvalidAmount"
        /\ (amount > 0 /\ amount <= betting_round.balance /\ bet_type \notin MainBetTypes)
              => kind = "InvalidSelection"

\* C19 as amended: place_main_bet reports InsufficientBalance for an amount
\* above the balance, InvalidAmount for an amount <= 0 that is not above the
\* balance, InvalidSelection for a selection other than player, banker, tie
\* on an amount that passed both checks, and succeeds otherwise.
C19_ErrorKinds ==
    \A bet_type \in TrialBetTypes : \A amount \in TrialAmounts :
        LET r == place_main_bet(betting_round, bet_type, amount)
            kind == ErrorKind(r.result)
        IN /\ amount > betting_round.balance => kind = "InsufficientBalance"
           /\ (amount <= betting_round.balance /\ amount <= 0)
                 => kind = "InvalidAmount"
           /\ (amount <= betting_round.balance /\ amount > 0
                 /\ bet_type \notin MainBetTypes) => kind = "InvalidSelection"
           /\ (amount <= betting_round.balance /\ amount > 0
                 /\ bet_type \in MainBetTypes) => r.result = Ok

\* With 10 staked out of a balance of 10, the last call of place_main_bet
\* asked for more than the balance and was told so.
C19_Witness ==
    /\ returned = Some([call |-> "place_main_bet",
                        value |-> Err("Insufficient balance")])
    /\ betting_round.balance = 10
    /\ betting_round.main_bet_amount = 10
    /\ ErrorKind(place_main_bet(betting_round, "player", 0).result) = "InvalidAmount"
    /\ ErrorKind(place_main_bet(betting_round, "player", 11).result)
          = "InsufficientBalance"

\* The kinds and stakes tried on place_bonus_bet in every state.
TrialBonusKinds == BonusKinds \cup {"tie", "lucky6", ""}
TrialBonusAmounts == BonusAmounts \cup {1, U8 - 1}

\* What C20 says of one call of place_bonus_bet on the round br.
BonusBetAsClaimed(br, kind, amount, oc) ==
    LET r == place_bonus_bet(br, kind, amount, oc)
        needed == br.main_bet_amount + BonusSum(br.bonus_bets) + amount
    IN /\ ~r.panicked
       /\ (ErrorKind(r.result) = "InsufficientBalance" <=> needed > br.balance)
       /\ (kind \notin BonusKinds /\ needed <= br.balance)
             => ErrorKind(r.result) = "InvalidSelection"
       /\ (kind \in BonusKinds /\ needed <= br.balance) => r.result = Ok
       /\ r.result # Ok => r.round = br
       /\ r.result = Ok => r.round = [br EXCEPT !.bonus_bets[kind] = amount]

\* C20: place_bonus_bet fails with the insufficient-balance error exactly
\* when main bet amount + the sum of the bonus stakes already placed + the
\* new stake exceeds the balance, fails with the invalid-selection error for
\* a kind outside the seven bonus kinds, leaves balance, main bet and the
\* seven bonus stakes unchanged on either failure, and on success changes
\* only the named bonus stake.
C20_PlaceBonusBet ==
    \A kind \in TrialBonusKinds : \A amount \in TrialBonusAmounts :
    \A oc \in BetOverflowChecks :
        BonusBetAsClaimed(betting_round, kind, amount, oc)

\* What C21 says of one call of settle_round on the round br and the game.
SettledAsClaimed(br, oc) ==
    LET r == settle_round(br, oc)
        staked == br.main_bet_amount + BonusSum(br.bonus_bets)
        payout == total_payout(br.main_bet_type, br.main_bet_amount)
    IN /\ ~r.panicked
       /\ r.result = Some(payout)
       /\ r.round.balance = br.balance + payout - staked
       /\ r.round.round_stats.hands_played = br.round_stats.hands_played + 1
       /\ r.round.round_stats.amount_wagered = br.round_stats.amount_wagered + staked
       /\ r.round.round_stats.amount_won = br.round_stats.amount_won + payout

\* C21: each settle_round call changes the balance by exactly the total
\* payout minus the total staked (the main bet amount plus all seven bonus
\* stakes), adds 1 to hands_played, the total staked to amount_wagered and
\* the payout to amount_won, and returns the payout.
C21_SettleDelta ==
    \A oc \in BetOverflowChecks : SettledAsClaimed(betting_round, oc)

\* The condition of a bonus kind held in the game's round.
BonusConditionHeld(kind) == RoundDone /\ ClaimedBonus(kind, 1) > 0

\* The hits a settlement of the round br adds for the given kinds, as C22
\* has it: one for a kind whose condition held and whose stake is > 0, none
\* for the others.
HitsAsClaimed(br, oc, kinds) ==
    LET r == settle_round(br, oc) IN
    ~r.panicked => \A kind \in kinds :
        HitsOf(r.round.round_stats, kind)
            = HitsOf(br.round_stats, kind)
              + (IF br.bonus_bets[kind] > 0 /\ BonusConditionHeld(kind)
                 THEN 1 ELSE 0)

\* C22: settle_round records one hit for every one of the seven bonus kinds
\* whose condition held in the round and whose stake was > 0, and no hit for
\* a kind whose stake is 0 or whose condition did not hold.
C22_BonusHits ==
    ~panicked =>
        \A oc \in BetOverflowChecks : HitsAsClaimed(betting_round, oc, BonusKinds)


\* The last call recorded in `returned` was `call`.
Called(call) == returned # None /\ returned[1].call = call

Max(a, b) == IF a >= b THEN a ELSE b

\* C23: needs_reshuffle is a threshold query that changes nothing: on a shoe
\* of N >= 1 decks it is true iff at least 52N - max(52N/10, 15) cards have
\* been dealt since the last (re)shuffle (37 for one deck), on a single deck
\* iff fewer than 6 cards remain.
C23_NeedsReshuffle ==
    /\ card_source.kind = "Shoe" =>
          LET n == card_source.num_decks IN
          /\ n >= 1
          /\ card_source.cards_dealt = 52 * n - Len(card_source.cards)
          /\ needs_reshuffle(card_source)
               <=> card_source.cards_dealt >= 52 * n - Max((52 * n) \div 10, 15)
          /\ (n = 1 /\ needs_reshuffle(card_source)) => card_source.cards_dealt >= 37
    /\ card_source.kind = "SingleDeck" =>
          (needs_reshuffle(card_source) <=> Len(card_source.cards) < 6)
    /\ Called("needs_reshuffle") =>
          /\ returned[1].source = card_source
          /\ returned[1].value = needs_reshuffle(card_source)

\* The query has just answered yes for the first time it can: a four-deck
\* shoe with 188 cards dealt, a one-deck shoe with 37.
C23_Witness ==
    /\ Called("needs_reshuffle")
    /\ returned[1].value
    /\ card_source.kind = "Shoe"
    /\ \/ card_source.num_decks = 4 /\ card_source.cards_dealt = 188
       \/ card_source.num_decks = 1 /\ card_source.cards_dealt = 37

AllButLast(cards) == SubSeq(cards, 1, Len(cards) - 1)

\* C24: deal() on a non-empty source returns its top card and removes that
\* card and no other; on an empty source it returns no card, does not panic
\* and leaves the source, the shoe's dealt counter included, as it was.
C24_Deal ==
    Called("deal") =>
        LET before == returned[1].source
            card == returned[1].value
        IN /\ ~panicked
           /\ Len(before.cards) > 0 =>
                 /\ card = Some(before.cards[Len(before.cards)])
                 /\ card_source.cards = AllButLast(before.cards)
                 /\ card_source.kind = before.kind
           /\ Len(before.cards) = 0 =>
                 /\ card = None
                 /\ card_source = before

\* deal() was called on an empty shoe.
C24_Witness ==
    /\ Called("deal")
    /\ returned[1].source.kind = "Shoe"
    /\ returned[1].source.cards = << >>
    /\ returned[1].value = None

\* The decks a source is made of.
DecksOf(src) == IF src.kind = "SingleDeck" THEN 1 ELSE src.num_decks

\* C25: reshuffle() from any state of a source yields a full source of the
\* same kind and size: 52 cards for a single deck and 52N for an N-deck
\* shoe, each (suit, rank) once per deck, the dealt counter at 0, the cut
\* card where it was at construction, and needs_reshuffle() false.
C25_Reshuffle ==
    Called("reshuffle") =>
        LET before == returned[1].source IN
        /\ card_source.kind = before.kind
        /\ DecksOf(card_source) = DecksOf(before)
        /\ Len(card_source.cards) = 52 * DecksOf(before)
        /\ \A suit \in 0..(NumSuits - 1) : \A rank \in 1..13 :
              CountOf(Card(suit, rank), card_source.cards) = DecksOf(before)
        /\ card_source.kind = "Shoe" =>
              /\ card_source.cards_dealt = 0
              /\ card_source.cut_card_position = before.cut_card_position
              /\ card_source.cut_card_position = CutCardPosition(before.num_decks)
        /\ ~needs_reshuffle(card_source)

\* reshuffle() was called on a shoe of more than one deck dealt down to
\* nothing.
C25_Witness ==
    /\ Called("reshuffle")
    /\ returned[1].source.kind = "Shoe"
    /\ returned[1].source.num_decks > 1
    /\ returned[1].source.cards = << >>
    /\ Len(card_source.cards) = 52 * card_source.num_decks

\* C26: under the reshuffle protocol (reshuffle() before a round whenever
\* needs_reshuffle() is true) no deal inside a round finds the source empty
\* and every round reaches Complete, for a single deck and for a shoe of any
\* N >= 1 decks, over any number of rounds.
C26_Protocol ==
    /\ ~panicked
    /\ (player_hand # << >>) => state.round_complete = 1

\* Under the protocol a round ends the program only where a hand's u8 sum
\* overflows; no deal of a round finds the source empty.
C26_NeverEmpty ==
    panicked => (SumValues(player_hand) >= U8 \/ SumValues(banker_hand) >= U8)

\* A round is complete and the player or the banker has won it.
RoundWon == RoundDone /\ state.winner \in {1, 2}

\* C27: in every completed round that has a winner the victory margin is
\* between 4 and 9 inclusive.
C27_MarginFourToNine == RoundWon => victory_margin \in 4..9

\* C27, amended: in every completed round that has a winner the victory
\* margin is between 1 and 9 inclusive, the distance of the two scores.
C27_MarginOneToNine ==
    RoundWon =>
        /\ victory_margin \in 1..9
        /\ victory_margin = Abs(state.player_score - state.banker_score)

\* The banker has won a round by less than 4.
C27_Witness == RoundWon /\ state.winner = 2 /\ victory_margin \in 1..3

\* The condition of the 1 x branch of the banker arm of ez_baccarat_payout.
ReducedBranch ==
    /\ Len(banker_hand) = 3
    /\ state.banker_score = 7
    /\ \A i \in 1..Len(banker_hand) :
          baccarat_value(banker_hand[i]) = 0 \/ baccarat_value(banker_hand[i]) >= 10

\* This step is a call of calculate_main_bet_payout with a 'banker'
\* selection on an EzBaccarat round the banker has won.
EzBankerStep ==
    /\ mode = "EzBaccarat" /\ RoundDone /\ state.winner = 2
    /\ returned' # returned
    /\ returned' # None
    /\ returned'[1].call = "calculate_main_bet_payout"
    /\ returned'[1].bet_type = "banker"

\* C28: in EzBaccarat, in every round state play_round produces in which
\* the banker wins, a 'banker' selection pays exactly 2 x stake; the 1 x
\* branch (3 cards, score 7, every card of value 0) is never taken, a hand
\* whose cards all have value 0 scoring 0.
C28_EzBankerDouble ==
    [][EzBankerStep
        => /\ returned'[1].value = 2 * returned'[1].bet_amount
           /\ ~ReducedBranch
           /\ (\A i \in 1..Len(banker_hand) : baccarat_value(banker_hand[i]) = 0)
                 => state.banker_score = 0]_vars

\* 100 on the banker was paid 200 on a banker win with three cards, two of
\* them kings, and score 7.
C28_Witness ==
    /\ mode = "EzBaccarat" /\ RoundDone /\ state.winner = 2
    /\ Len(banker_hand) = 3 /\ state.banker_score = 7
    /\ Cardinality({i \in 1..3 : baccarat_value(banker_hand[i]) = 0}) = 2
    /\ Called("calculate_main_bet_payout")
    /\ returned[1].bet_type = "banker"
    /\ returned[1].bet_amount = 100
    /\ returned[1].value = 200

\* C29: after any sequence of successful place_main_bet and place_bonus_bet
\* calls, in any order, on a BettingRound of non-negative balance, the main
\* bet amount plus the sum of the seven bonus stakes does not exceed the
\* balance.
C29_StakesWithinBalance ==
    betting_round.balance >= 0 =>
        betting_round.main_bet_amount + BonusSum(betting_round.bonus_bets)
            <= betting_round.balance

\* C30: starting from a non-negative balance, after any sequence of
\* place_main_bet, place_bonus_bet and settle_round calls (settle_round
\* called again without a new bet included) the balance is not negative.
C30_BalanceNotNegative == betting_round.balance >= 0

\* C31: settle_round pays bonus winnings on the stakes it deducts: the payout
\* it adds to the balance is the main-bet payout plus the bonus payout of
\* the seven stakes placed on the BettingRound, the same seven stakes whose
\* sum it subtracts.
C31_SameStakes ==
    ~panicked =>
        \A oc \in BetOverflowChecks :
            LET r == settle_round(betting_round, oc)
                main == calculate_main_bet_payout(betting_round.main_bet_type,
                                                  betting_round.main_bet_amount)
                bonus == calculate_payouts(betting_round.bonus_bets)
            IN ~r.panicked =>
                  /\ r.result = Some(main + bonus)
                  /\ r.round.balance
                       = betting_round.balance
                           - (betting_round.main_bet_amount
                                + total_bet(betting_round.bonus_bets))
                           + (main + bonus)

\* What settle_round pays is the bonus payout of the stakes attached to the
\* game by set_bonus_bets.
C31_PaysGameStakes ==
    ~panicked =>
        \A oc \in BetOverflowChecks :
            LET r == settle_round(betting_round, oc) IN
            ~r.panicked =>
                r.result = Some(calculate_main_bet_payout(betting_round.main_bet_type,
                                                          betting_round.main_bet_amount)
                                  + calculate_payouts(bonus_bets))

\* The seven stakes as they are once `amount` has replaced the stake on kind.
Replaced(bets, kind, amount) == [bets EXCEPT ![kind] = amount]

\* C32: place_bonus_bet on a kind that already has a stake succeeds whenever
\* main bet amount + the bonus stakes as they are after the replacement is at
\* most the balance; re-placing the amount a kind already holds succeeds.
C32_ReplaceBonusBet ==
    ~panicked =>
        \A kind \in BonusKinds : \A amount \in TrialBonusAmounts :
        \A oc \in BetOverflowChecks :
            (/\ betting_round.bonus_bets[kind] > 0
             /\ betting_round.main_bet_amount
                  + BonusSum(Replaced(betting_round.bonus_bets, kind, amount))
                    <= betting_round.balance)
                => LET r == place_bonus_bet(betting_round, kind, amount, oc)
                   IN /\ ~r.panicked
                      /\ r.result = Ok
                      /\ r.round.bonus_bets = Replaced(betting_round.bonus_bets, kind, amount)

\* C33: BonusBets::total_bet returns the exact integer sum of the seven
\* stakes for every combination of stakes in 0..255; it neither wraps modulo
\* 256 nor aborts when the sum exceeds 255.
C33_TotalBetExact ==
    /\ ~panicked
    /\ Called("total_bet") => returned[1].value = BonusSum(bonus_bets)

\* Where the seven stakes sum to at most 255, total_bet returns their sum.
C33_ExactBelowOverflow ==
    BonusSum(bonus_bets) < U8 =>
        /\ ~panicked
        /\ Called("total_bet") => returned[1].value = BonusSum(bonus_bets)

\* No reshuffle has brought the cards of a second deck into the game: the
\* hands and the source hold at most 52 cards between them (a reshuffle
\* leaves 52 in the source beside those in the hands).
FirstDeck ==
    Len(player_hand) + Len(banker_hand) + Len(card_source.cards) <= 52

\* C34: in a game on a single deck the cards dealt between two reshuffles
\* are pairwise distinct, so after play_round on such a game is_perfect_pair
\* is false and a perfect_pair stake pays nothing; a perfect pair takes a
\* shoe of at least 2 decks.
C34_SingleDeckDistinct ==
    /\ card_source.kind = "SingleDeck" =>
          /\ Injective(card_source.cards)
          /\ FirstDeck => Injective(player_hand \o banker_hand \o card_source.cards)
          /\ ~is_perfect_pair
          /\ \A stake \in 1..(U8 - 1) :
                calculate_payouts(OnlyBet("perfect_pair", stake)) = 0
    /\ is_perfect_pair => (card_source.kind = "Shoe" /\ card_source.num_decks >= 2)

\* A round on a single deck has dealt the player a pair: two cards of one
\* rank and two suits.
C34_Witness ==
    /\ card_source.kind = "SingleDeck"
    /\ RoundDone
    /\ FirstDeck
    /\ is_player_pair
    /\ player_hand[1].suit # player_hand[2].suit

\* A round on a shoe of two decks has dealt a perfect pair.
C34_ShoePerfectPair ==
    /\ card_source.kind = "Shoe" /\ card_source.num_decks = 2
    /\ RoundDone
    /\ is_perfect_pair
====
